---------------------------- MODULE Spec2Model ----------------------------
(***************************************************************************)
(* Model of src/src/main.cpp: a maximum-power-point controller that        *)
(* samples a load voltage, estimates the power over an 8-bit switched      *)
(* resistor ladder, hill-climbs the ladder state, drives eight MOSFET      *)
(* outputs and appends telemetry to an SD card.                            *)
(*                                                                         *)
(* Numbers.  A voltage is kept as its ADC code (unit 3.3/4095 V), a        *)
(* resistance in units of 0.02 Ohm (the closed-MOSFET resistance), so a    *)
(* resistor of 2^i Ohm is 50 * 2^i units.  A power is the exact fraction   *)
(* n/d = code^2 / resistance; the C++ doubles are compared through these   *)
(* fractions.  Two powers the program compares are computed at the same    *)
(* ladder state or at neighbouring ones; there the fractions are equal     *)
(* only for equal (code, state) or for code 0, and distinct fractions      *)
(* differ by far more than a double's rounding, so ">" and "<" on the      *)
(* doubles agree with ">" and "<" on the fractions.                        *)
(***************************************************************************)
EXTENDS Integers, Sequences, FiniteSets, TLC

VARIABLES
    pc,                  \* "setup" before setup() has run, "loop" after
    timer,               \* unsigned long timer
    nextCalcSensor,      \* unsigned long nextCalcSensor
    nextCalcResistance,  \* unsigned long nextCalcResistance
    old_power,           \* double old_power
    new_power,           \* double new_power
    state,               \* int state
    rising_res_cycle,    \* bool rising_res_cycle
    pins,                \* level of every digital output pin
    sdOk,                \* result of SD.begin in setup()
    written,             \* what the last setup()/loop() pass appended to datalog.txt
    last,                \* what the last pass did (observation only)
    nticks,              \* controller ticks since setup(): 0, 1, or 2 for "more"
    riseRun,             \* length of the run of power-increase ticks since setup(), -1 once broken
    lastStep             \* the step called at the latest tick with new_power # old_power

vars == <<pc, timer, nextCalcSensor, nextCalcResistance, old_power, new_power,
          state, rising_res_cycle, pins, sdOk, written, last, nticks, riseRun,
          lastStep>>

---------------------------------------------------------------------------
(* Program constants *)

CALC_INTERVAL_SENSOR == 1000

CALC_INTERVAL_RESISTOR == 100

VOLTAGE_DIVIDER == 1

\* analogReadResolution(12): readings are 0..4095
ADC_MAX == 4095

\* width of std::bitset<8> and length of MOSFETPINS
NBITS == 8

\* resistor 2^i Ohm in units of the closed-MOSFET resistance 0.02 Ohm (1 / 0.02)
OHM == 50

\* resistance of a closed MOSFET (0.02 Ohm) in units of 0.02 Ohm
MOSFET_ON == 1

\* the pin raised when the SD card is unreachable
FAULT_PIN == 1

LOW == 0

HIGH == 1

\* const char MOSFETPINS[8]; MOSFETPINS[i] of the source is MOSFETPINS[i + 1] here
MOSFETPINS == <<0, 1, 2, 3, 7, 6, 8, 9>>

\* width of the model's unsigned long (32 on the target): wide enough for both
\* intervals, narrow enough for the wrap to be reached
TimerBits == 12

PinSet == {MOSFETPINS[k] : k \in 1..NBITS} \cup {FAULT_PIN}

\* pow(2, i)
Pow2(k) == 2 ^ k

\* unsigned long wraps at 2^32 on the target; the model keeps the wrap and
\* narrows the word to TimerBits bits (see the bounds below)
ULONG_MOD == Pow2(TimerBits)

\* unsigned long addition
UAdd(a, b) == (a + b) % ULONG_MOD

---------------------------------------------------------------------------
(* Bounds of the model: the sampled inputs *)

\* ADC readings drawn per pass: 0 and MaxAdcIdx evenly spread readings up to ADC_MAX
MaxAdcIdx == 1

AdcSamples == {(k * ADC_MAX) \div MaxAdcIdx : k \in 0..MaxAdcIdx}

\* ADC readings drawn for the voltage field of a telemetry record
LogSamples == {0, ADC_MAX}

\* millis() values drawn per pass of loop(): MaxClockIdx + 1 values around the
\* first telemetry deadline, and one just before the counter wraps
MaxClockIdx == 1

ClockSamples ==
    {950 + CALC_INTERVAL_RESISTOR * k : k \in 0..MaxClockIdx}
        \cup {ULONG_MOD - CALC_INTERVAL_RESISTOR}

\* millis() when setup() runs, right after power-up
SetupClocks == {0}

---------------------------------------------------------------------------
(* Powers: exact fractions n/d with d > 0 *)

ZeroPower == [n |-> 0, d |-> 1]

\* n1/d1 < n2/d2 for n >= 0, d > 0, by continued-fraction expansion
RECURSIVE FracLess(_, _, _, _)
FracLess(n1, d1, n2, d2) ==
    LET q1 == n1 \div d1
        q2 == n2 \div d2
        r1 == n1 % d1
        r2 == n2 % d2
    IN  IF q1 # q2 THEN q1 < q2
        ELSE IF r2 = 0 THEN FALSE
        ELSE IF r1 = 0 THEN TRUE
        ELSE FracLess(d2, r2, d1, r1)

\* p < q and p > q on doubles
PLess(p, q) == FracLess(p.n, p.d, q.n, q.d)

PGreater(p, q) == PLess(q, p)

---------------------------------------------------------------------------
(* The pure functions *)

\* the for loop of calculate_power: bin_x is tested at bit 0 and shifted right
RECURSIVE ResistanceLoop(_, _, _)
ResistanceLoop(bin_x, i, resistance) ==
    IF i >= NBITS THEN resistance
    ELSE ResistanceLoop(bin_x \div 2, i + 1,
                        resistance + (IF bin_x % 2 = 1 THEN MOSFET_ON ELSE OHM * Pow2(i)))

\* std::bitset<8> bin_x(state_i): the low 8 bits
Bitset(state_i) == state_i % Pow2(NBITS)

\* the loop reading the bitset most significant bit first
RECURSIVE ResistanceLoopMsb(_, _, _)
ResistanceLoopMsb(bin_x, i, resistance) ==
    IF i >= NBITS THEN resistance
    ELSE ResistanceLoopMsb((bin_x * 2) % Pow2(NBITS), i + 1,
                           resistance + (IF bin_x \div Pow2(NBITS - 1) = 1
                                         THEN MOSFET_ON ELSE OHM * Pow2(i)))

ResistanceMsbFirst(state_i) == ResistanceLoopMsb(Bitset(state_i), 0, 0)

\* the loop shifting before it tests bit 0
RECURSIVE ResistanceLoopShiftFirst(_, _, _)
ResistanceLoopShiftFirst(bin_x, i, resistance) ==
    IF i >= NBITS THEN resistance
    ELSE ResistanceLoopShiftFirst(bin_x \div 2, i + 1,
                                  resistance + (IF (bin_x \div 2) % 2 = 1
                                                THEN MOSFET_ON ELSE OHM * Pow2(i)))

ResistanceShiftFirst(state_i) == ResistanceLoopShiftFirst(Bitset(state_i), 0, 0)

Resistance(state_i) == ResistanceLoop(Bitset(state_i), 0, 0)

\* double volt = analogRead(MEASUREMENT_PIN) * 3.3 / 4095, as the ADC code
Volt(adc) == adc

calculate_power(voltage, state_i) ==
    LET v == voltage \div VOLTAGE_DIVIDER
    IN  IF v = 0 THEN ZeroPower ELSE [n |-> v * v, d |-> Resistance(state_i)]

\* count_up without saturation: the 8-bit ladder state wraps to 0
count_up_wrap(state_i) == IF state_i = 255 THEN 0 ELSE state_i + 1

count_up(state_i) == IF state_i = 255 THEN 255 ELSE state_i + 1

\* count_down without the test for 0
count_down_unclamped(state_i) == state_i - 1

count_down(state_i) == IF state_i = 0 THEN 0 ELSE state_i - 1

\* bin_x[i]
BitAt(bin_x, i) == (bin_x \div Pow2(i)) % 2

\* the for loop of switch_transistors: one digitalWrite per position
RECURSIVE SwitchLoop(_, _, _)
SwitchLoop(p, bin_x, i) ==
    IF i >= NBITS THEN p
    ELSE SwitchLoop([p EXCEPT ![MOSFETPINS[i + 1]] =
                         IF BitAt(bin_x, i) = 1 THEN HIGH ELSE LOW],
                    bin_x, i + 1)

\* the loop writing only the outputs that go HIGH
RECURSIVE SwitchLoopHighOnly(_, _, _)
SwitchLoopHighOnly(p, bin_x, i) ==
    IF i >= NBITS THEN p
    ELSE SwitchLoopHighOnly(IF BitAt(bin_x, i) = 1
                            THEN [p EXCEPT ![MOSFETPINS[i + 1]] = HIGH] ELSE p,
                            bin_x, i + 1)

switch_transistors_high_only(p, state_i) == SwitchLoopHighOnly(p, Bitset(state_i), 0)

switch_transistors(p, state_i) == SwitchLoop(p, Bitset(state_i), 0)

---------------------------------------------------------------------------
(* The hill-climbing decision of loop() *)

\* the decision with the increase branch stepping the other way
HillClimbReversed(st, rising, newp, oldp) ==
    IF PGreater(newp, oldp)
    THEN [state |-> IF rising THEN count_up(st) ELSE count_down(st),
          rising |-> rising]
    ELSE IF PLess(newp, oldp)
    THEN [state |-> IF rising THEN count_up(st) ELSE count_down(st),
          rising |-> ~rising]
    ELSE [state |-> st, rising |-> rising]

\* the decision with the flip of the decrease branch left out
HillClimbNoFlip(st, rising, newp, oldp) ==
    IF PGreater(newp, oldp)
    THEN [state |-> IF rising THEN count_down(st) ELSE count_up(st),
          rising |-> rising]
    ELSE IF PLess(newp, oldp)
    THEN [state |-> IF rising THEN count_up(st) ELSE count_down(st),
          rising |-> rising]
    ELSE [state |-> st, rising |-> rising]

\* the decision with ">=" for ">" in the first test
HillClimbGe(st, rising, newp, oldp) ==
    IF ~PLess(newp, oldp)
    THEN [state |-> IF rising THEN count_down(st) ELSE count_up(st),
          rising |-> rising]
    ELSE [state |-> IF rising THEN count_up(st) ELSE count_down(st),
          rising |-> ~rising]

\* the decision with "<=" for "<" in the second test
HillClimbLe(st, rising, newp, oldp) ==
    IF PGreater(newp, oldp)
    THEN [state |-> IF rising THEN count_down(st) ELSE count_up(st),
          rising |-> rising]
    ELSE [state |-> IF rising THEN count_up(st) ELSE count_down(st),
          rising |-> ~rising]

\* the decision flipping the phase whenever the clamp stops the step
HillClimbFlipOnClamp(st, rising, newp, oldp) ==
    IF PGreater(newp, oldp)
    THEN [state |-> IF rising THEN count_down(st) ELSE count_up(st),
          rising |-> IF (rising /\ st = 0) \/ (~rising /\ st = 255)
                     THEN ~rising ELSE rising]
    ELSE IF PLess(newp, oldp)
    THEN [state |-> IF rising THEN count_up(st) ELSE count_down(st),
          rising |-> ~rising]
    ELSE [state |-> st, rising |-> rising]

HillClimb(st, rising, newp, oldp) ==
    IF PGreater(newp, oldp)
    THEN [state |-> IF rising THEN count_down(st) ELSE count_up(st),
          rising |-> rising]
    ELSE IF PLess(newp, oldp)
    THEN [state |-> IF rising THEN count_up(st) ELSE count_down(st),
          rising |-> ~rising]
    ELSE [state |-> st, rising |-> rising]

\* which of count_up and count_down the decision calls
StepKind(rising, newp, oldp) ==
    IF PGreater(newp, oldp) THEN (IF rising THEN "down" ELSE "up")
    ELSE IF PLess(newp, oldp) THEN (IF rising THEN "up" ELSE "down")
    ELSE "none"

\* timer > deadline with ">=" for ">"
DueGe(now, deadline) == now >= deadline

\* if (timer > nextCalcResistance), if (timer > nextCalcSensor)
Due(now, deadline) == now > deadline

\* the telemetry tick reading the values from before the controller tick
SeenBeforeController(before, after) == before

\* the telemetry tick comes second in loop(): it reads new_power and state as
\* the controller tick of the same pass left them
SeenByTelemetry(before, after) == after

\* SD.open called only on a card whose SD.begin succeeded
OpensLogIfCard(sen, begun) == sen /\ begun

\* SD.open is called in every telemetry tick, whatever SD.begin returned
OpensLog(sen, begun) == sen

Cmp(newp, oldp) ==
    IF PGreater(newp, oldp) THEN "gt"
    ELSE IF PLess(newp, oldp) THEN "lt" ELSE "eq"

NoLine == [kind |-> "none"]

NoPass == [ctl |-> FALSE, sen |-> FALSE, cmp |-> "none", from |-> 0,
           was |-> FALSE, open |-> FALSE]

---------------------------------------------------------------------------
(* State after construction: zero-initialised globals, outputs at reset level *)

Init ==
    /\ pc = "setup"
    /\ timer = 0
    /\ nextCalcSensor = 0
    /\ nextCalcResistance = 0
    /\ old_power = ZeroPower
    /\ new_power = ZeroPower
    /\ state = 0
    /\ rising_res_cycle = FALSE
    /\ pins = [p \in PinSet |-> LOW]
    /\ sdOk = FALSE
    /\ written = NoLine
    /\ last = NoPass
    /\ nticks = 0
    /\ riseRun = 0
    /\ lastStep = "none"

\* setup(): now is millis(), begin the result of SD.begin, exists that of
\* SD.exists, openOk whether SD.open gives a file
Setup(now, begin, exists, openOk) ==
    /\ pc = "setup"
    /\ pc' = "loop"
    /\ sdOk' = begin
    /\ pins' = IF begin THEN pins ELSE [pins EXCEPT ![FAULT_PIN] = HIGH]
    /\ written' = IF begin /\ exists /\ openOk THEN [kind |-> "init"] ELSE NoLine
    /\ state' = 255
    /\ rising_res_cycle' = TRUE
    /\ nextCalcSensor' = UAdd(now, CALC_INTERVAL_SENSOR)
    /\ UNCHANGED <<timer, nextCalcResistance, old_power, new_power, last, nticks,
                   riseRun, lastStep>>

\* loop() whose telemetry tick also moves the controller deadline
LoopSharedDeadline(now, adc, adcLog, openOk) ==
    LET ctl == Due(now, nextCalcResistance)
        sen == Due(now, nextCalcSensor)
        np == IF ctl THEN calculate_power(Volt(adc), state) ELSE new_power
        hc == IF ctl THEN HillClimb(state, rising_res_cycle, np, old_power)
              ELSE [state |-> state, rising |-> rising_res_cycle]
        cmp == IF ctl THEN Cmp(np, old_power) ELSE "none"
        step == IF ctl THEN StepKind(rising_res_cycle, np, old_power) ELSE "none"
        seen == SeenByTelemetry([power |-> new_power, state |-> state],
                                [power |-> np, state |-> hc.state])
    IN  /\ pc = "loop"
        /\ timer' = now
        /\ nextCalcResistance' =
               IF ctl THEN UAdd(now, CALC_INTERVAL_RESISTOR)
               ELSE IF sen THEN UAdd(now, CALC_INTERVAL_SENSOR)
               ELSE nextCalcResistance
        /\ new_power' = np
        /\ state' = hc.state
        /\ rising_res_cycle' = hc.rising
        /\ pins' = IF ctl THEN switch_transistors(pins, hc.state) ELSE pins
        /\ old_power' = IF ctl THEN np ELSE old_power
        /\ nextCalcSensor' =
               IF sen THEN UAdd(now, CALC_INTERVAL_SENSOR) ELSE nextCalcSensor
        /\ written' =
               IF sen /\ openOk
               THEN [kind |-> "record", power |-> seen.power, state |-> seen.state,
                     voltage |-> Volt(adcLog)]
               ELSE NoLine
        /\ last' = [ctl |-> ctl, sen |-> sen, cmp |-> cmp, from |-> state,
                    was |-> rising_res_cycle, open |-> OpensLog(sen, sdOk)]
        /\ nticks' = IF ctl /\ nticks < 2 THEN nticks + 1 ELSE nticks
        /\ riseRun' = IF ~ctl THEN riseRun
                      ELSE IF riseRun >= 0 /\ cmp = "gt" THEN riseRun + 1 ELSE -1
        /\ lastStep' = IF step = "none" THEN lastStep ELSE step
        /\ UNCHANGED <<pc, sdOk>>

\* one pass of loop(): now is millis(), adc the reading of the controller tick,
\* adcLog the reading of the telemetry tick, openOk whether SD.open succeeds
Loop(now, adc, adcLog, openOk) ==
    LET ctl == Due(now, nextCalcResistance)
        sen == Due(now, nextCalcSensor)
        np == IF ctl THEN calculate_power(Volt(adc), state) ELSE new_power
        hc == IF ctl THEN HillClimb(state, rising_res_cycle, np, old_power)
              ELSE [state |-> state, rising |-> rising_res_cycle]
        cmp == IF ctl THEN Cmp(np, old_power) ELSE "none"
        step == IF ctl THEN StepKind(rising_res_cycle, np, old_power) ELSE "none"
        seen == SeenByTelemetry([power |-> new_power, state |-> state],
                                [power |-> np, state |-> hc.state])
    IN  /\ pc = "loop"
        /\ timer' = now
        /\ nextCalcResistance' =
               IF ctl THEN UAdd(now, CALC_INTERVAL_RESISTOR) ELSE nextCalcResistance
        /\ new_power' = np
        /\ state' = hc.state
        /\ rising_res_cycle' = hc.rising
        /\ pins' = IF ctl THEN switch_transistors(pins, hc.state) ELSE pins
        /\ old_power' = IF ctl THEN np ELSE old_power
        /\ nextCalcSensor' =
               IF sen THEN UAdd(now, CALC_INTERVAL_SENSOR) ELSE nextCalcSensor
        /\ written' =
               IF sen /\ openOk
               THEN [kind |-> "record", power |-> seen.power, state |-> seen.state,
                     voltage |-> Volt(adcLog)]
               ELSE NoLine
        /\ last' = [ctl |-> ctl, sen |-> sen, cmp |-> cmp, from |-> state,
                    was |-> rising_res_cycle, open |-> OpensLog(sen, sdOk)]
        /\ nticks' = IF ctl /\ nticks < 2 THEN nticks + 1 ELSE nticks
        /\ riseRun' = IF ~ctl THEN riseRun
                      ELSE IF riseRun >= 0 /\ cmp = "gt" THEN riseRun + 1 ELSE -1
        /\ lastStep' = IF step = "none" THEN lastStep ELSE step
        /\ UNCHANGED <<pc, sdOk>>

\* SD.open on a card whose SD.begin failed returns no file
OpenResults == IF sdOk THEN BOOLEAN ELSE {FALSE}

\* analogRead and SD.open are called only inside the tick that uses them
CtlReadings(now) == IF Due(now, nextCalcResistance) THEN AdcSamples ELSE {0}

LogReadings(now) == IF Due(now, nextCalcSensor) THEN LogSamples ELSE {0}

LogOpens(now) == IF Due(now, nextCalcSensor) THEN OpenResults ELSE {FALSE}

Next ==
    \/ \E now \in SetupClocks, begin \in BOOLEAN, exists \in BOOLEAN,
          openOk \in BOOLEAN :
           Setup(now, begin, exists, openOk)
    \/ \E now \in ClockSamples :
          \E adc \in CtlReadings(now), adcLog \in LogReadings(now),
             openOk \in LogOpens(now) :
               Loop(now, adc, adcLog, openOk)

Spec == Init /\ [][Next]_vars

---------------------------------------------------------------------------
(* A slowly rising load voltage: every controller tick reads the least code  *)
(* whose power exceeds the retained one, up to RampTop                       *)

RampTop == 300

\* the least code in lo..hi whose power at state s exceeds p, hi if there is
\* none below it (the power rises with the code, so the search may bisect)
RECURSIVE RampSearch(_, _, _, _)
RampSearch(lo, hi, p, s) ==
    IF lo >= hi THEN hi
    ELSE LET mid == (lo + hi) \div 2
         IN  IF PGreater(calculate_power(Volt(mid), s), p)
             THEN RampSearch(lo, mid, p, s)
             ELSE RampSearch(mid + 1, hi, p, s)

RampReadings(now) ==
    IF Due(now, nextCalcResistance)
    THEN {RampSearch(0, RampTop, old_power, state)} ELSE {0}

NextRamp ==
    \/ \E now \in SetupClocks, begin \in BOOLEAN, exists \in BOOLEAN,
          openOk \in BOOLEAN :
           Setup(now, begin, exists, openOk)
    \/ \E now \in ClockSamples :
          \E adc \in RampReadings(now), adcLog \in LogReadings(now),
             openOk \in LogOpens(now) :
               Loop(now, adc, adcLog, openOk)

SpecRamp == Init /\ [][NextRamp]_vars

---------------------------------------------------------------------------
(* The counter of millis() near the top of its range: passes that sample it  *)
(* just before it wraps, and one pass well after                             *)

WrapClocks ==
    {ULONG_MOD - CALC_INTERVAL_SENSOR - 1, ULONG_MOD - CALC_INTERVAL_RESISTOR - 1,
     ULONG_MOD - 50, ULONG_MOD - 49, 50}

\* a steady load voltage: every controller tick reads the full-scale code
WrapReadings(now) == IF Due(now, nextCalcResistance) THEN {ADC_MAX} ELSE {0}

NextWrap ==
    \/ \E now \in SetupClocks, begin \in BOOLEAN, exists \in BOOLEAN,
          openOk \in BOOLEAN :
           Setup(now, begin, exists, openOk)
    \/ \E now \in WrapClocks :
          \E adc \in WrapReadings(now), adcLog \in LogReadings(now),
             openOk \in LogOpens(now) :
               Loop(now, adc, adcLog, openOk)

SpecWrap == Init /\ [][NextWrap]_vars

---------------------------------------------------------------------------
(* One run of the scheduler: setup() at 0, then four passes of loop() that   *)
(* sample millis() as 0, 50, 150 and 1050                                    *)

ScenarioClocks == <<0, 50, 150, 1050>>

\* the sample of the next pass: the first before any pass, then the successor
\* of the one held in timer
ScenarioNow ==
    IF last = NoPass THEN {ScenarioClocks[1]}
    ELSE {ScenarioClocks[k + 1] :
            k \in {j \in 1..(Len(ScenarioClocks) - 1) : ScenarioClocks[j] = timer}}

\* ADC readings of the scenario: 0 and MaxScenarioAdcIdx evenly spread readings
MaxScenarioAdcIdx == 5

ScenarioSamples == {(k * ADC_MAX) \div MaxScenarioAdcIdx : k \in 0..MaxScenarioAdcIdx}

ScenarioReadings(now) == IF Due(now, nextCalcResistance) THEN ScenarioSamples ELSE {0}

ScenarioLogReadings(now) == IF Due(now, nextCalcSensor) THEN ScenarioSamples ELSE {0}

NextScenario ==
    \/ \E now \in SetupClocks, begin \in BOOLEAN, exists \in BOOLEAN,
          openOk \in BOOLEAN :
           Setup(now, begin, exists, openOk)
    \/ \E now \in ScenarioNow :
          \E adc \in ScenarioReadings(now), adcLog \in ScenarioLogReadings(now),
             openOk \in LogOpens(now) :
               Loop(now, adc, adcLog, openOk)

SpecScenario == Init /\ [][NextScenario]_vars

---------------------------------------------------------------------------
(* Claims *)

\* the positions i whose MOSFET output is HIGH
HighPositions == {i \in 0..(NBITS - 1) : pins[MOSFETPINS[i + 1]] = HIGH}

\* bit i of s, least significant first
BitOf(s, i) == (s \div (2 ^ i)) % 2

\* C1: in every reachable state the ladder state is an integer in 0..255
C1_StateInRange == state \in 0..255

\* a tick that asked count_down for a step below 0 and was clamped
C1_Witness ==
    /\ pc = "loop" /\ last.ctl /\ last.cmp = "gt" /\ last.was
    /\ last.from = 0 /\ state = 0

\* C2 as stated: on every tick of a run of power increases that starts at
\* setup(), the state strictly decreases and rising_res_cycle stays true
C2_Original ==
    [][(riseRun' > riseRun) =>
         (state' < state /\ rising_res_cycle /\ rising_res_cycle')]_vars

\* C2 amended: on every tick of such a run the state decreases by one while it
\* is above 0 and stays 0 once it is 0, and rising_res_cycle stays true
C2_RiseRun ==
    [][(riseRun' > riseRun) =>
         /\ state' = (IF state > 0 THEN state - 1 ELSE 0)
         /\ rising_res_cycle /\ rising_res_cycle']_vars

\* the 256th tick of a run of increases: the state was 0 and stays 0
C2_Witness ==
    /\ riseRun = 256 /\ last.ctl /\ last.cmp = "gt"
    /\ last.from = 0 /\ state = 0 /\ rising_res_cycle

\* C3: a tick with rising_res_cycle true and new_power < old_power at a state
\* s with 0 < s < 255 leaves state = s + 1 and rising_res_cycle false
C3_DecreaseWhileRising ==
    (last.ctl /\ last.cmp = "lt" /\ last.was /\ last.from > 0 /\ last.from < 255)
        => (state = last.from + 1 /\ ~rising_res_cycle)

C3_Witness ==
    /\ last.ctl /\ last.cmp = "lt" /\ last.was
    /\ last.from = 100 /\ state = 101 /\ ~rising_res_cycle

\* C4: a tick with new_power = old_power changes neither state nor
\* rising_res_cycle, and the outputs show the unchanged state
C4_EqualPower ==
    (last.ctl /\ last.cmp = "eq")
        => /\ state = last.from
           /\ rising_res_cycle = last.was
           /\ HighPositions = {i \in 0..(NBITS - 1) : BitOf(last.from, i) = 1}

\* an equal-power tick in the falling phase at an interior state
C4_Witness ==
    /\ last.ctl /\ last.cmp = "eq" /\ ~last.was
    /\ state = 200 /\ last.from = 200 /\ ~rising_res_cycle

\* powers the decision is tried on: 0 and those of the sampled readings at
\* the ends of the ladder
SamplePowers ==
    {ZeroPower} \cup
    {calculate_power(Volt(a), s) : a \in AdcSamples \ {0}, s \in {0, 1, 254, 255}}

\* the decision flips exactly on a decrease, for every state and phase; where
\* the decrease step is clamped the state stays and the flip still occurs
C5_Decision ==
    \A st \in 0..255, r \in BOOLEAN, np \in SamplePowers, op \in SamplePowers :
        LET hc == HillClimb(st, r, np, op)
        IN  /\ (hc.rising # r) <=> PLess(np, op)
            /\ (PLess(np, op) /\ st = 255 /\ r) => hc.state = 255
            /\ (PLess(np, op) /\ st = 0 /\ ~r) => hc.state = 0
            /\ (~PLess(np, op) /\ st \in {0, 255}) => hc.rising = r

\* C5: a tick flips rising_res_cycle if and only if new_power < old_power,
\* at the pinned states 0 and 255 as anywhere else; saturation alone never flips
C5_FlipIffDecrease ==
    /\ last.ctl => ((rising_res_cycle # last.was) <=> (last.cmp = "lt"))
    /\ C5_Decision

\* a decrease tick at the pinned state 0: the phase flips
C5_Witness ==
    /\ last.ctl /\ last.cmp = "lt" /\ last.was /\ last.from = 0
    /\ ~rising_res_cycle

\* C6 as stated: the first controller tick after setup() registers an increase
\* and steps the state from 255 to 254 without flipping, whatever the reading
C6_Original ==
    (nticks = 1 /\ last.ctl)
        => (last.cmp = "gt" /\ last.from = 255 /\ state = 254 /\ rising_res_cycle)

\* the decision of the first tick for every reading 0..4095
C6_AllReadings ==
    \A a \in 0..ADC_MAX :
        HillClimb(255, TRUE, calculate_power(Volt(a), 255), ZeroPower)
            = [state |-> IF a = 0 THEN 255 ELSE 254, rising |-> TRUE]

\* C6 amended: the first controller tick after setup() starts from state 255,
\* rising_res_cycle true and old_power 0; for every reading 1..4095 it registers
\* an increase and steps to 254 without flipping, and for the reading 0 the
\* power equals old_power and the tick changes neither state nor flag
C6_FirstTick ==
    /\ (pc = "loop" /\ nticks = 0)
           => (state = 255 /\ rising_res_cycle /\ old_power = ZeroPower)
    /\ (nticks = 1 /\ last.ctl)
           => /\ last.from = 255 /\ last.was /\ rising_res_cycle
              /\ IF new_power.n > 0
                 THEN last.cmp = "gt" /\ state = 254
                 ELSE last.cmp = "eq" /\ state = 255
    /\ C6_AllReadings

\* the state right after a first tick that read a non-zero voltage
C6_Witness ==
    /\ nticks = 1 /\ last.ctl /\ last.cmp = "gt" /\ new_power.n > 0
    /\ state = 254 /\ rising_res_cycle

\* the positions calculate_power counts as closed at state s: the resistance is
\* (number of closed positions) + OHM * (sum of 2^i over the open ones), and
\* fewer than OHM positions exist, so the open ones are the bits of its quotient
ClosedPositions(s) ==
    {i \in 0..(NBITS - 1) : BitOf(Resistance(s) \div OHM, i) = 0}

\* the levels after switch_transistors(s) from all outputs LOW
PinsFromLow(s) == switch_transistors([p \in PinSet |-> LOW], s)

\* C7: for every state s and position i, calculate_power counts position i as
\* closed if and only if switch_transistors(s) drives MOSFETPINS[i] HIGH
C7_AllStates ==
    \A s \in 0..255 :
        ClosedPositions(s) =
            {i \in 0..(NBITS - 1) : PinsFromLow(s)[MOSFETPINS[i + 1]] = HIGH}

C7_SameOrdering ==
    /\ (pc = "loop" /\ nticks >= 1) => ClosedPositions(state) = HighPositions
    /\ C7_AllStates

\* the outputs of a state whose bit pattern is not a palindrome
C7_Witness ==
    /\ last.ctl /\ state = 177 /\ HighPositions = {0, 4, 5, 7}
    /\ ClosedPositions(177) = {0, 4, 5, 7}

\* the sum over the positions, by bit index
RECURSIVE PositionalSum(_, _)
PositionalSum(s, i) ==
    IF i < 0 THEN 0
    ELSE (IF BitOf(s, i) = 1 THEN MOSFET_ON ELSE OHM * (2 ^ i)) + PositionalSum(s, i - 1)

\* C8: the resistance of every state is the positional sum, is positive, is
\* least at 255 (eight closed switches) and greatest at 0 (2^0 + ... + 2^7 Ohm)
C8_AllStates ==
    /\ \A s \in 0..255 :
          /\ Resistance(s) = PositionalSum(s, NBITS - 1)
          /\ Resistance(s) > 0
          /\ Resistance(255) <= Resistance(s)
          /\ Resistance(s) <= Resistance(0)
    /\ Resistance(255) = 8 * MOSFET_ON
    /\ Resistance(0) = 255 * OHM

C8_Resistance ==
    /\ (last.ctl /\ new_power.n > 0)
           => new_power.d = PositionalSum(last.from, NBITS - 1)
    /\ C8_AllStates

\* a tick that computed the power of state 0 at a non-zero voltage
C8_Witness ==
    /\ last.ctl /\ last.from = 0 /\ new_power.n > 0
    /\ new_power.d = 255 * OHM

\* output levels that show the bits of m, position i on MOSFETPINS[i]
PinsOfMask(m) ==
    [p \in PinSet |->
        IF \E i \in 0..(NBITS - 1) : MOSFETPINS[i + 1] = p /\ BitOf(m, i) = 1
        THEN HIGH ELSE LOW]

\* C9: switch_transistors(s) leaves MOSFETPINS[i] HIGH exactly when bit i of s
\* is set, whatever the levels were before; 177 gives positions {0,4,5,7}
C9_AllStates ==
    /\ \A s \in 0..255, m \in 0..255 :
          switch_transistors(PinsOfMask(m), s) = PinsOfMask(s)
    /\ {i \in 0..(NBITS - 1) : PinsFromLow(177)[MOSFETPINS[i + 1]] = HIGH} = {0, 4, 5, 7}

C9_FullReassert ==
    /\ last.ctl => pins = PinsOfMask(state)
    /\ C9_AllStates

\* a tick that had to drive outputs LOW: from 178 down to 177
C9_Witness ==
    /\ last.ctl /\ last.from = 178 /\ state = 177
    /\ {p \in PinSet : pins[p] = HIGH} = {0, 7, 6, 9}

\* C10: count_up(255) = 255, count_down(0) = 0, and count_up(count_down(s)) = s
\* for 0 < s < 255
C10_AllStates ==
    /\ count_up(255) = 255
    /\ count_down(0) = 0
    /\ \A s \in 1..254 : count_up(count_down(s)) = s

C10_SaturatingSteps ==
    /\ C10_AllStates
    /\ (last.ctl /\ last.cmp = "gt" /\ ~last.was) => state = count_up(last.from)
    /\ (state > 0 /\ state < 255) => count_up(count_down(state)) = state

\* a tick that called count_up(255)
C10_Witness ==
    /\ last.ctl /\ last.cmp = "gt" /\ ~last.was /\ last.from = 255
    /\ state = 255 /\ ~rising_res_cycle

---------------------------------------------------------------------------
(* The scheduler, the SD card and the order of the two ticks                 *)

\* C11: while the sampled clock does not decrease, a tick fires in a pass
\* exactly when timer exceeds its deadline, the deadline then is timer plus
\* the interval, and ticks of the same kind in two successive passes are more
\* than the interval apart (100 ms controller, 1000 ms telemetry)
C11_Original ==
    [][(pc = "loop" /\ timer' >= timer) =>
         /\ last'.ctl <=> (timer' > nextCalcResistance)
         /\ last'.sen <=> (timer' > nextCalcSensor)
         /\ last'.ctl => nextCalcResistance' = UAdd(timer', CALC_INTERVAL_RESISTOR)
         /\ last'.sen => nextCalcSensor' = UAdd(timer', CALC_INTERVAL_SENSOR)
         /\ (last.ctl /\ last'.ctl) => timer' - timer > CALC_INTERVAL_RESISTOR
         /\ (last.sen /\ last'.sen) => timer' - timer > CALC_INTERVAL_SENSOR]_vars

\* C12: in the run with passes at 0, 50, 150 and 1050 the controller tick
\* fires in the passes at 50 and 1050 and in no other, and the telemetry tick
\* fires in the pass at 1050 only
C12_Scenario ==
    (pc = "loop" /\ last # NoPass) =>
        /\ timer = 0 => (~last.ctl /\ ~last.sen /\ nticks = 0)
        /\ timer = 50 => (last.ctl /\ ~last.sen /\ nticks = 1)
        /\ timer = 150 => (~last.ctl /\ ~last.sen /\ nticks = 1)
        /\ timer = 1050 => (last.ctl /\ last.sen /\ nticks = 2)

\* C12 as stated: the first controller tick fires in the pass at 150
C12_Original ==
    (pc = "loop" /\ last # NoPass) =>
        /\ timer = 0 => (~last.ctl /\ ~last.sen /\ nticks = 0)
        /\ timer = 50 => (~last.ctl /\ ~last.sen /\ nticks = 0)
        /\ timer = 150 => (last.ctl /\ ~last.sen /\ nticks = 1)
        /\ timer = 1050 => (last.ctl /\ last.sen /\ nticks = 2)

\* the end of the scenario: the pass at 1050 ran both ticks
C12_Witness ==
    /\ timer = 1050 /\ last.ctl /\ last.sen /\ nticks = 2
    /\ nextCalcResistance = 1150 /\ nextCalcSensor = 2050

\* C13: once SD.begin has failed the fault pin is HIGH and no tick drives it LOW
C13_Original == (pc = "loop" /\ ~sdOk) => pins[FAULT_PIN] = HIGH

C15_KeepDirection ==
    [][pc = "loop" =>
         /\ (last'.cmp = "gt" /\ lastStep # "none") => lastStep' = lastStep
         /\ (last'.cmp = "lt" /\ lastStep # "none") =>
                (lastStep' # lastStep /\ lastStep' # "none")
         /\ last'.cmp \in {"gt", "lt"} =>
                /\ rising_res_cycle' <=> (lastStep' = "down")
                /\ state' = IF lastStep' = "down"
                            THEN (IF state > 0 THEN state - 1 ELSE state)
                            ELSE (IF state < 255 THEN state + 1 ELSE state)
         /\ last'.cmp \notin {"gt", "lt"} => lastStep' = lastStep]_vars

\* a decrease after a count_up turned the search round: count_down was called
C15_Witness ==
    /\ last.ctl /\ last.cmp = "lt" /\ ~last.was /\ nticks = 2
    /\ lastStep = "down" /\ rising_res_cycle /\ state = last.from - 1

\* C16: at state 0 in the rising phase and at state 255 in the falling phase a
\* tick with a power increase leaves state and rising_res_cycle as they are,
\* and only a tick with a power decrease moves the controller off the boundary
C16_SticksAtBoundary ==
    (pc = "loop" /\ last.ctl
        /\ ((last.from = 0 /\ last.was) \/ (last.from = 255 /\ ~last.was))) =>
        /\ last.cmp = "gt" => (state = last.from /\ rising_res_cycle = last.was)
        /\ (state # last.from \/ rising_res_cycle # last.was) => last.cmp = "lt"

\* a power increase at 255 in the falling phase: every output is HIGH again
C16_Witness ==
    /\ last.ctl /\ last.cmp = "gt" /\ last.from = 255 /\ ~last.was
    /\ state = 255 /\ ~rising_res_cycle
    /\ HighPositions = 0..(NBITS - 1)
    /\ new_power.d = Resistance(255) /\ new_power.n > 0

\* C17: every record carries the state and the power as they are after the
\* pass that wrote it, so in a pass that runs both ticks the state the decision
\* of that pass produced and the power that pass computed; both deadlines are
\* compared with the same sample
C17_RecordIsCurrent ==
    /\ written.kind = "record" =>
          /\ last.sen /\ nticks >= 1
          /\ written.state = state
          /\ written.power = new_power
    /\ (pc = "loop" /\ last.ctl /\ last.sen) =>
          /\ nextCalcResistance = UAdd(timer, CALC_INTERVAL_RESISTOR)
          /\ nextCalcSensor = UAdd(timer, CALC_INTERVAL_SENSOR)

\* a pass that ran both ticks, moved the state and logged the new one
C17_Witness ==
    /\ last.ctl /\ last.sen /\ written.kind = "record"
    /\ last.from = 255 /\ state = 254 /\ written.state = 254
    /\ written.power.n > 0

\* C18: a pass whose controller deadline is not exceeded leaves state,
\* rising_res_cycle, old_power, new_power, the outputs and nextCalcResistance
\* unchanged, whether or not it logs; a pass whose telemetry deadline is not
\* exceeded leaves nextCalcSensor unchanged; state changes only by one step
\* in a pass that runs the controller tick
C18_Frame ==
    [][pc = "loop" =>
         /\ ~(timer' > nextCalcResistance) =>
                UNCHANGED <<state, rising_res_cycle, old_power, new_power, pins,
                            nextCalcResistance>>
         /\ ~(timer' > nextCalcSensor) => UNCHANGED nextCalcSensor
         /\ state' # state =>
                /\ timer' > nextCalcResistance
                /\ state' \in {state - 1, state + 1}]_vars

\* a telemetry tick alone whose SD.open gave no file, after the state has moved
C18_Witness ==
    /\ pc = "loop" /\ sdOk
    /\ last.sen /\ ~last.ctl /\ last.open /\ written = NoLine
    /\ state = 254 /\ nextCalcResistance = 1050 /\ timer = 1050

\* C19: whenever a controller tick computes the power, the outputs are those
\* switch_transistors set for the state handed to calculate_power
C19_Original ==
    [][(pc = "loop" /\ last'.ctl) =>
         HighPositions = {i \in 0..(NBITS - 1) : BitOf(state, i) = 1}]_vars

\* C20: every tick is followed by another one: after any pass some value of
\* the counter exceeds either deadline
C20_Original ==
    pc = "loop" =>
        /\ Due(ULONG_MOD - 1, nextCalcResistance)
        /\ Due(ULONG_MOD - 1, nextCalcSensor)

===========================================================================
